---- MODULE Spec2Model ----
(***************************************************************************)
(* Plan / execute / re-plan loop of the browser agent (src/app.py).        *)
(*                                                                         *)
(* The Streamlit script main() is run again and again over the persistent  *)
(* st.session_state; one behaviour of this module is one browser session   *)
(* of the app.  A script run is cut into the steps plan, show, ask, exec   *)
(* and recover (variable pc); between two runs pc = "idle".  The decision  *)
(* oracle (the chat completion), the live page (Playwright) and the user   *)
(* are the environment: their answers are drawn from small sets.           *)
(* The browser launch in BrowserAgent.__init__ is taken to succeed.        *)
(***************************************************************************)
EXTENDS Integers, Sequences, FiniteSets, TLC

\* ------------------------------------------------------------------ bounds
\* Number of planner calls (get_next_action + handle_error) in a behaviour.
MaxCalls == 2
\* Number of records one planner instance logs in the two-planner runs.
MaxRecords == 2

\* ------------------------------------------------------ Python value model
\* None in a slot that otherwise holds a str.
None == "<None>"
\* None in a slot that otherwise holds a dict or an object.
NoObj == [None |-> TRUE]
\* A dict is a function from its keys; {} is the function with no key.
EmptyDict == [k \in {} |-> ""]
Has(d, k) == k \in DOMAIN d
Get(d, k, default) == IF k \in DOMAIN d THEN d[k] ELSE default
Put(d, k, v) == [x \in DOMAIN d \cup {k} |-> IF x = k THEN v ELSE d[x]]
\* bool(x) of a dict-or-None slot and of a str-or-None slot.
TruthyObj(x) == x # NoObj /\ DOMAIN x # {}
TruthyStr(s) == s # None /\ s # ""
\* f"{x}" of a str-or-None value.
Fmt(s) == IF s = None THEN "None" ELSE s
\* json.dumps of a dict: its text.
dumps(d) == ToString(d)

\* ------------------------------------------------------------ vocabulary
ActionType == {"click", "type", "extract", "wait", "navigate", "finished"}
SelectorType == {"id", "class", "xpath", "text", "css"}
DefaultTimeout == 10000

\* ------------------------------------------------------------ environment
Goals == {"go to example.com"}
Answers == {"", "a@b.com"}
Texts == {"", "$19.99"}
\* How the live page answers one driver operation: the Playwright call
\* completes or raises, and the text of the element it found.
Worlds == [ok : BOOLEAN, text : Texts]

\* Decisions the oracle may return (the parsed JSON object).
Decisions ==
  { EmptyDict,
    [explanation |-> "thinking"],
    [action_type |-> "scroll", explanation |-> "scroll down"],
    [action_type |-> "finished", explanation |-> "done"],
    [action_type |-> "navigate", input_value |-> "https://example.com",
       requires_user_input |-> FALSE, explanation |-> "open the site"],
    [action_type |-> "navigate", input_value |-> "https://weather.com",
       task_progress |-> "step 2"],
    [action_type |-> "navigate"],
    [action_type |-> "click", selector_type |-> "id", selector |-> "submit",
       timeout |-> 5000],
    [action_type |-> "click", selector |-> "button.login"],
    [action_type |-> "click", selector_type |-> "id"],
    [action_type |-> "click"],
    [action_type |-> "click", selector_type |-> "frame", selector |-> "x"],
    [action_type |-> "type", selector_type |-> "class", selector |-> "q",
       input_value |-> "pizza"],
    [action_type |-> "type", selector_type |-> "xpath", selector |-> "//input"],
    [action_type |-> "type", selector_type |-> "css", selector |-> "#email",
       requires_user_input |-> TRUE, user_prompt |-> "What is your email?"],
    [action_type |-> "type", selector_type |-> "css", selector |-> "#email",
       input_value |-> "guess", requires_user_input |-> TRUE,
       user_prompt |-> "What is your email?", explanation |-> "fill email"],
    [action_type |-> "type", selector_type |-> "id", selector |-> "name",
       requires_user_input |-> TRUE],
    [action_type |-> "extract", selector_type |-> "css", selector |-> ".price"],
    [action_type |-> "extract", selector |-> ".price"],
    [action_type |-> "wait", selector_type |-> "text", selector |-> "Sign in"],
    [action_type |-> "wait", selector_type |-> "xpath"],
    [action_type |-> "wait", selector_type |-> "css", selector |-> "#app",
       timeout |-> 0] }

\* What one chat completion yields: a JSON object, text that is not JSON,
\* or an error of the call itself.
Responses == [kind : {"api_error", "bad_json"}] \cup
             { [kind |-> "json", result |-> d] : d \in Decisions }

\* ----------------------------------------------------------------- state
VARIABLES
  agent,                 \* st.session_state.agent
  user_task,             \* st.session_state.user_task
  conversation_history,  \* st.session_state.conversation_history
  current_action,        \* st.session_state.current_action
  user_inputs,           \* st.session_state.user_inputs
  finished,              \* st.session_state.finished
  task_progress,         \* st.session_state.task_progress
  extracted_content,     \* st.session_state.extracted_content
  pc,                    \* position of the script run; "idle" between runs
  event,                 \* the widget event that started the current run
  rendered,              \* buttons on screen when the last run ended
  step,                  \* what the step just taken did (observation)
  failPending,           \* an execution failed and no planner call since
  lastNavigated,         \* URL of the latest navigate that succeeded
  planResp,              \* what the oracle sent to the latest get_next_action
  nCalls,                \* planner calls so far
  log_file,              \* content of llm_interactions.json
  loggers,               \* planner instances writing the log side by side
  liveDrivers,           \* browsers launched and not closed
  attempted              \* the pending action was handed to the driver before

vars == <<agent, user_task, conversation_history, current_action, user_inputs,
          finished, task_progress, extracted_content, pc, event, rendered,
          step, failPending, lastNavigated, planResp, nCalls, log_file,
          loggers, liveDrivers, attempted>>

\* Everything but the log file and the planners writing it side by side.
loopVars == <<agent, user_task, conversation_history, current_action,
              user_inputs, finished, task_progress, extracted_content, pc,
              event, rendered, step, failPending, lastNavigated, planResp,
              nCalls, liveDrivers, attempted>>

session == <<agent, user_task, conversation_history, current_action,
             user_inputs, finished, task_progress, extracted_content>>

NoEvent == [button |-> "none", user_response |-> ""]
NoOp == [name |-> "none"]
\* The observation of a step: the driver operation it invoked, the planner
\* call it made, the action it handed to execute_browser_action with the
\* outcome, the snapshot it took, and the exception that ended the run.
Quiet == [kind |-> "none", op |-> NoOp, call |-> "none", call_ok |-> FALSE,
          state |-> NoObj, action |-> NoObj, outcome |-> "none",
          extracted |-> None, error |-> "none", ui |-> << >>]

\* ---------------------------------------------------------- BrowserAgent
NewBrowserAgent == [current_url |-> "", page |-> "about:blank", closed |-> FALSE]

\* Variant: the URL is recorded before the page load is known to succeed.
navigate_to_url_eager(a, url, w) ==
  [agent |-> [a EXCEPT !.current_url = url],
   ret |-> (url # None /\ w.ok),
   op |-> [name |-> "navigate_to_url", url |-> url]]

navigate_to_url(a, url, w) ==
  LET op == [name |-> "navigate_to_url", url |-> url] IN
  IF url # None /\ w.ok
    THEN [agent |-> [a EXCEPT !.current_url = url, !.page = url],
          ret |-> TRUE, op |-> op]
    ELSE [agent |-> a, ret |-> FALSE, op |-> op]

\* Variant: the TEXT branch is missing, exact-text selectors go out raw.
_get_selector_no_text(selector_type, selector) ==
  IF selector_type = "id" THEN "#" \o Fmt(selector)
  ELSE IF selector_type = "class" THEN "." \o Fmt(selector)
  ELSE selector

_get_selector(selector_type, selector) ==
  IF selector_type = "id" THEN "#" \o Fmt(selector)
  ELSE IF selector_type = "class" THEN "." \o Fmt(selector)
  ELSE IF selector_type = "xpath" THEN selector
  ELSE IF selector_type = "text" THEN "text=" \o Fmt(selector)
  ELSE selector

find_and_click(a, selector_type, selector, timeout, w) ==
  LET full_selector == _get_selector(selector_type, selector) IN
  [agent |-> a, ret |-> (full_selector # None /\ w.ok),
   op |-> [name |-> "find_and_click", selector_type |-> selector_type,
           selector |-> selector, locator |-> full_selector,
           timeout |-> timeout]]

find_and_type(a, selector_type, selector, text, timeout, w) ==
  LET full_selector == _get_selector(selector_type, selector) IN
  [agent |-> a, ret |-> (full_selector # None /\ text # None /\ w.ok),
   op |-> [name |-> "find_and_type", selector_type |-> selector_type,
           selector |-> selector, locator |-> full_selector, text |-> text,
           timeout |-> timeout]]

extract_content(a, selector_type, selector, timeout, w) ==
  LET full_selector == _get_selector(selector_type, selector) IN
  [agent |-> a,
   ret |-> IF full_selector # None /\ w.ok THEN w.text ELSE None,
   op |-> [name |-> "extract_content", selector_type |-> selector_type,
           selector |-> selector, locator |-> full_selector,
           timeout |-> timeout]]

wait_for_element(a, selector_type, selector, timeout, w) ==
  LET full_selector == _get_selector(selector_type, selector) IN
  [agent |-> a, ret |-> (full_selector # None /\ w.ok),
   op |-> [name |-> "wait_for_element", selector_type |-> selector_type,
           selector |-> selector, locator |-> full_selector,
           timeout |-> timeout]]

get_current_url(a) == a.current_url
get_page_content(a) == a.page

\* ------------------------------------------------- execute_browser_action
\* The result: raised (ValueError of an Enum constructor), else the pair
\* (success, extracted), the driver operation invoked and the agent after.
ExecResult(raised, success, extracted, a, op) ==
  [raised |-> raised, success |-> success, extracted |-> extracted,
   agent |-> a, op |-> op]

\* Lines 306-332: build the BrowserAction and call the driver per its kind.
dispatch_action(a, action_data, w) ==
  LET raw_type == Get(action_data, "action_type", None)
      raw_sel  == Get(action_data, "selector_type", None)
      selector_type == IF TruthyStr(raw_sel) THEN raw_sel ELSE None
      selector == Get(action_data, "selector", None)
      input_value == Get(action_data, "input_value", None)
      timeout == Get(action_data, "timeout", DefaultTimeout)
  IN
  IF TruthyStr(raw_sel) /\ raw_sel \notin SelectorType
    THEN ExecResult(TRUE, FALSE, None, a, NoOp)
  ELSE IF raw_type = "navigate"
    THEN LET r == navigate_to_url(a, input_value, w)
         IN ExecResult(FALSE, r.ret, None, r.agent, r.op)
  ELSE IF raw_type = "click"
    THEN LET r == find_and_click(a, selector_type, selector, timeout, w)
         IN ExecResult(FALSE, r.ret, None, r.agent, r.op)
  ELSE IF raw_type = "type"
    THEN LET r == find_and_type(a, selector_type, selector, input_value,
                                timeout, w)
         IN ExecResult(FALSE, r.ret, None, r.agent, r.op)
  ELSE IF raw_type = "extract"
    THEN LET r == extract_content(a, selector_type, selector, timeout, w)
         IN ExecResult(FALSE, r.ret # None, r.ret, r.agent, r.op)
  ELSE IF raw_type = "wait"
    THEN LET r == wait_for_element(a, selector_type, selector, timeout, w)
         IN ExecResult(FALSE, r.ret, None, r.agent, r.op)
  ELSE ExecResult(FALSE, FALSE, None, a, NoOp)

\* Variant: no short-circuit for FINISHED, it falls to the final return.
execute_browser_action_no_finished(a, action_data, w) ==
  IF Has(action_data, "action_type") /\ action_data.action_type \notin ActionType
    THEN ExecResult(TRUE, FALSE, None, a, NoOp)
    ELSE dispatch_action(a, action_data, w)

\* Lines 301-304, then the dispatch.
execute_browser_action(a, action_data, w) ==
  LET raw_type == Get(action_data, "action_type", None) IN
  IF Has(action_data, "action_type") /\ raw_type \notin ActionType
    THEN ExecResult(TRUE, FALSE, None, a, NoOp)
  ELSE IF raw_type = "finished"
    THEN ExecResult(FALSE, TRUE, "finished", a, NoOp)
  ELSE dispatch_action(a, action_data, w)

\* ----------------------------------------------------------- TaskPlanner
Msg(role, content) == [role |-> role, content |-> content]

\* Lines 135-204: the planner's session id and its system prompt.
SessionIds == {"s1", "s2"}
SystemPrompt == "You are a browser automation expert"

\* The log file holds text: the empty text that __init__ writes (a missing
\* file reads the same way), or the JSON list that json.dump writes.
TruncatedFile == [json |-> FALSE, records |-> << >>]
JsonFile(logs) == [json |-> TRUE, records |-> logs]

\* Lines 222-229: the records in the file, [] when it is not JSON.
load_logs(file) == IF file.json THEN file.records ELSE << >>

\* Lines 212-220 (the wall-clock timestamp is left out).
LogEntry(session_id, call) ==
  [session_id |-> session_id, interaction_type |-> call.interaction_type,
   messages |-> call.messages, response |-> call.response,
   parsed_result |-> call.parsed_result]

LogCall(interaction_type, messages, response_content, result) ==
  [interaction_type |-> interaction_type, messages |-> messages,
   response |-> response_content, parsed_result |-> result]

\* Lines 210-237, run without another writer in between.
log_llm_interaction(file, session_id, call) ==
  JsonFile(Append(load_logs(file), LogEntry(session_id, call)))

\* Lines 240-250 and 275-282: the request messages.
NextMessages(user_input, current_state, history) ==
  << Msg("system", SystemPrompt) >>
  \o (IF history # << >> THEN history ELSE << Msg("user", user_input) >>)
  \o (IF DOMAIN current_state # {}
        THEN << Msg("user", "Current state: " \o dumps(current_state)) >>
        ELSE << >>)

ErrorMessages(error, current_state, history) ==
  << Msg("system", SystemPrompt) >> \o history
  \o << Msg("user", "Error occurred: " \o error \o "\nCurrent state: "
            \o dumps(current_state)
            \o "\nPlease provide an alternative approach.") >>

\* Both planner operations return: raised (the completion call or
\* json.loads raised), the decision, the history after the call and the
\* calls of log_llm_interaction they made.
\* Variant: a response that does not parse is replaced by an empty decision.
get_next_action_defaulting(user_input, current_state, history, resp) ==
  LET result == IF resp.kind = "json" THEN resp.result ELSE EmptyDict IN
  [raised |-> FALSE, error |-> "none", result |-> result,
   history |-> Append(history, Msg("assistant", dumps(result))),
   logged |-> << LogCall("get_next_action",
                   NextMessages(user_input, current_state, history),
                   dumps(result), result) >>,
   call |-> "get_next_action"]

\* Variant: the history is cut to its last two messages after the call.
get_next_action_trimming(user_input, current_state, history, resp) ==
  IF resp.kind # "json"
    THEN [raised |-> TRUE, error |-> resp.kind, result |-> NoObj,
          history |-> history, logged |-> << >>,
          call |-> "get_next_action"]
    ELSE LET h == Append(history, Msg("assistant", dumps(resp.result)))
         IN [raised |-> FALSE, error |-> "none", result |-> resp.result,
             history |-> IF Len(h) > 2 THEN SubSeq(h, Len(h) - 1, Len(h))
                         ELSE h,
             logged |-> << LogCall("get_next_action",
                             NextMessages(user_input, current_state, history),
                             dumps(resp.result), resp.result) >>,
             call |-> "get_next_action"]

get_next_action(user_input, current_state, history, resp) ==
  IF resp.kind # "json"
    THEN [raised |-> TRUE, error |-> resp.kind, result |-> NoObj,
          history |-> history, logged |-> << >>,
          call |-> "get_next_action"]
    ELSE [raised |-> FALSE, error |-> "none", result |-> resp.result,
          history |-> Append(history, Msg("assistant", dumps(resp.result))),
          logged |-> << LogCall("get_next_action",
                          NextMessages(user_input, current_state, history),
                          dumps(resp.result), resp.result) >>,
          call |-> "get_next_action"]

\* Variant: the error notice is put into the history before the request.
handle_error_notes_first(error, current_state, history, resp) ==
  LET noted == Append(history, Msg("user", "Error occurred: " \o error)) IN
  IF resp.kind # "json"
    THEN [raised |-> TRUE, error |-> resp.kind, result |-> NoObj,
          history |-> noted, logged |-> << >>, call |-> "handle_error"]
    ELSE [raised |-> FALSE, error |-> "none", result |-> resp.result,
          history |-> Append(noted, Msg("assistant", dumps(resp.result))),
          logged |-> << LogCall("handle_error",
                          ErrorMessages(error, current_state, history),
                          dumps(resp.result), resp.result) >>,
          call |-> "handle_error"]

handle_error(error, current_state, history, resp) ==
  IF resp.kind # "json"
    THEN [raised |-> TRUE, error |-> resp.kind, result |-> NoObj,
          history |-> history, logged |-> << >>, call |-> "handle_error"]
    ELSE [raised |-> FALSE, error |-> "none", result |-> resp.result,
          history |-> history \o
             << Msg("user", "Error occurred: " \o error),
                Msg("assistant", dumps(resp.result)) >>,
          logged |-> << LogCall("handle_error",
                          ErrorMessages(error, current_state, history),
                          dumps(resp.result), resp.result) >>,
          call |-> "handle_error"]

\* ------------------------------------------------------------------ main
\* Variant: the state read when the driver was created is passed each time.
Snapshot_at_start ==
  [current_url |-> "", page_content |-> "about:blank"]

\* Lines 376-379 and 432-435: the browser state read for a planner call.
Snapshot ==
  [current_url  |-> IF agent # NoObj THEN get_current_url(agent) ELSE "",
   page_content |-> IF agent # NoObj THEN get_page_content(agent) ELSE ""]

\* Where a script run that starts from the top of main() first does work.
Entry ==
  IF user_task = None THEN "idle"
  ELSE IF ~finished
    THEN (IF ~TruthyObj(current_action) THEN "plan" ELSE "show")
    ELSE "idle"

\* Variant: an action that names no prompt is not held back.
AwaitsInput_named_only(action, inputs) ==
  /\ Get(action, "requires_user_input", FALSE)
  /\ Has(action, "user_prompt")
  /\ action.user_prompt \notin DOMAIN inputs

\* Line 395: the pending action still waits for the user's answer.
AwaitsInput(action, inputs) ==
  /\ Get(action, "requires_user_input", FALSE)
  /\ Get(action, "user_prompt", "") \notin DOMAIN inputs

\* Variant: the failure branch plans afresh instead of asking for recovery.
PlannerOnFailure_replan(error, current_state, history, resp) ==
  get_next_action(user_task, current_state, history, resp)

\* Lines 436-440: the planner call of the failure branch.
PlannerOnFailure(error, current_state, history, resp) ==
  handle_error(error, current_state, history, resp)

\* Line 342: the planner of the session modelled by the loop.
PlannerId == "s1"

\* What a planner call leaves in the log file.
Logged(file, r) ==
  IF r.logged = << >> THEN file
  ELSE log_llm_interaction(file, PlannerId, r.logged[1])

\* Variant: the explanation is not written out.
Shown_nothing(action) == << >>

\* Lines 386-387: the explanation put on screen.
Shown(action) ==
  IF Has(action, "explanation") THEN << action.explanation >> ELSE << >>

\* Line 430: the notice of a failed execution.
FailureNotice == "Error occurred during action execution"

\* Variant: any success ends the task.
IsFinishedAction_any(action) == TRUE

\* Line 407: the executed action is the terminal one.
IsFinishedAction(action) == Get(action, "action_type", None) = "finished"

\* No planner has been constructed and none is logging.
LoggersInit ==
  [pcs |-> [p \in SessionIds |-> "absent"],
   logs |-> [p \in SessionIds |-> << >>],
   count |-> [p \in SessionIds |-> 0],
   written |-> << >>]

\* Lines 423-425: what a successful execution leaves of its extracted text.
StoreExtracted(old, extracted) ==
  IF TruthyStr(extracted) THEN extracted ELSE old

\* Variant: the test is "is not None", so the empty text is recorded too.
RecordExtracted_not_none(history, extracted) ==
  IF extracted # None
    THEN Append(history, Msg("user", "Extracted content: " \o extracted))
    ELSE history

RecordExtracted(history, extracted) ==
  IF TruthyStr(extracted)
    THEN Append(history, Msg("user", "Extracted content: " \o extracted))
    ELSE history

Init ==
  /\ agent = NoObj
  /\ user_task = None
  /\ conversation_history = << >>
  /\ current_action = NoObj
  /\ user_inputs = EmptyDict
  /\ finished = FALSE
  /\ task_progress = ""
  /\ extracted_content = None
  /\ pc = "idle"
  /\ event = NoEvent
  /\ rendered = {}
  /\ step = Quiet
  /\ failPending = FALSE
  /\ lastNavigated = ""
  /\ planResp = "none"
  /\ nCalls = 0
  /\ log_file = TruncatedFile
  /\ loggers = LoggersInit
  /\ liveDrivers = 0
  /\ attempted = FALSE

\* Lines 358-364: the user states the goal.
EnterGoal(g) ==
  /\ pc = "idle"
  /\ user_task = None
  /\ user_task' = g
  /\ conversation_history' = << Msg("user", g) >>
  /\ agent' = NewBrowserAgent
  /\ pc' = "idle"
  /\ event' = NoEvent
  /\ rendered' = {}
  /\ step' = [Quiet EXCEPT !.kind = "goal"]
  /\ lastNavigated' = ""
  /\ liveDrivers' = liveDrivers + 1
  /\ UNCHANGED <<current_action, user_inputs, finished, task_progress,
                 extracted_content, failPending, planResp, nCalls,
                 log_file, loggers, attempted>>

\* A script run starts: st.rerun() of the previous run, or the user's rerun.
Rerun ==
  /\ pc = "idle"
  /\ pc' = Entry
  /\ event' = NoEvent
  /\ rendered' = {}
  /\ step' = [Quiet EXCEPT !.kind = "rerun"]
  /\ UNCHANGED <<session, failPending, lastNavigated, planResp, nCalls,
                 log_file, loggers, liveDrivers, attempted>>

\* The user types an answer and presses a button that is on screen.
ClickSubmit(answer) ==
  /\ pc = "idle"
  /\ "Submit" \in rendered
  /\ pc' = Entry
  /\ event' = [button |-> "Submit", user_response |-> answer]
  /\ rendered' = {}
  /\ step' = [Quiet EXCEPT !.kind = "click"]
  /\ UNCHANGED <<session, failPending, lastNavigated, planResp, nCalls,
                 log_file, loggers, liveDrivers, attempted>>

ClickStartNewTask ==
  /\ pc = "idle"
  /\ "Start New Task" \in rendered
  /\ pc' = Entry
  /\ event' = [button |-> "Start New Task", user_response |-> ""]
  /\ rendered' = {}
  /\ step' = [Quiet EXCEPT !.kind = "click"]
  /\ UNCHANGED <<session, failPending, lastNavigated, planResp, nCalls,
                 log_file, loggers, liveDrivers, attempted>>

\* Lines 374-384: no pending action, ask the planner for the next one.
Plan(resp) ==
  /\ pc = "plan"
  /\ nCalls < MaxCalls
  /\ LET r == get_next_action(user_task, Snapshot, conversation_history, resp)
     IN /\ conversation_history' = r.history
        /\ current_action' = IF r.raised THEN current_action ELSE r.result
        /\ pc' = IF r.raised THEN "idle" ELSE "show"
        /\ log_file' = Logged(log_file, r)
        /\ attempted' = IF r.raised THEN attempted ELSE FALSE
        /\ step' = [Quiet EXCEPT !.kind = "plan", !.call = r.call,
                      !.call_ok = ~r.raised, !.state = Snapshot,
                      !.error = r.error]
  /\ nCalls' = nCalls + 1
  /\ failPending' = FALSE
  /\ planResp' = resp.kind
  /\ UNCHANGED <<agent, user_task, user_inputs, finished, task_progress,
                 extracted_content, event, rendered, lastNavigated,
                 loggers, liveDrivers>>

\* Lines 386-395: surface explanation and progress, pick the branch.
Show ==
  /\ pc = "show"
  /\ task_progress' = Get(current_action, "task_progress", task_progress)
  /\ pc' = IF AwaitsInput(current_action, user_inputs) THEN "ask" ELSE "exec"
  /\ step' = [Quiet EXCEPT !.kind = "show", !.action = current_action,
                 !.ui = Shown(current_action)]
  /\ UNCHANGED <<agent, user_task, conversation_history, current_action,
                 user_inputs, finished, extracted_content, event, rendered,
                 failPending, lastNavigated, planResp, nCalls, log_file,
                 loggers, liveDrivers, attempted>>

\* Lines 396-397: the question is put up and the run ends.
AskWait ==
  /\ pc = "ask"
  /\ event.button # "Submit"
  /\ rendered' = {"Submit"}
  /\ pc' = "idle"
  /\ step' = [Quiet EXCEPT !.kind = "ask"]
  /\ UNCHANGED <<session, event, failPending, lastNavigated, planResp, nCalls,
                 log_file, loggers, liveDrivers, attempted>>

\* Lines 397-401: Submit was pressed, the answer is recorded.
AskSubmit ==
  /\ pc = "ask"
  /\ event.button = "Submit"
  /\ LET user_prompt == Get(current_action, "user_prompt", "")
         user_response == event.user_response
     IN /\ user_inputs' = Put(user_inputs, user_prompt, user_response)
        /\ current_action' = Put(current_action, "input_value", user_response)
        /\ conversation_history' = Append(conversation_history,
              Msg("user", "User provided input: " \o user_response))
  /\ rendered' = {}
  /\ pc' = "idle"
  /\ step' = [Quiet EXCEPT !.kind = "answer"]
  /\ UNCHANGED <<agent, user_task, finished, task_progress, extracted_content,
                 event, failPending, lastNavigated, planResp, nCalls,
                 log_file, loggers, liveDrivers, attempted>>

\* Lines 403-430: dispatch the pending action and branch on the outcome.
Exec(w) ==
  /\ pc = "exec"
  /\ LET r == execute_browser_action(agent, current_action, w)
         isFinished == IsFinishedAction(current_action)
         obs == [Quiet EXCEPT !.kind = "exec", !.op = r.op,
                   !.action = current_action,
                   !.outcome = IF r.raised THEN "raised"
                               ELSE IF r.success THEN "success" ELSE "failure",
                   !.extracted = r.extracted,
                   !.error = IF r.raised THEN "ValueError" ELSE "none",
                   !.ui = IF r.raised THEN << >>
                          ELSE IF r.success /\ isFinished
                            THEN << "Task completed!" >>
                          ELSE IF r.success THEN << >>
                          ELSE << FailureNotice >>]
     IN
     /\ step' = obs
     /\ (r.raised \/ ~r.success \/ ~isFinished
           \/ event.button # "Start New Task") => agent' = r.agent
     /\ lastNavigated' = IF r.op.name = "navigate_to_url" /\ r.success
                           THEN r.op.url ELSE lastNavigated
     /\ IF r.raised THEN
          /\ pc' = "idle"
          /\ attempted' = attempted
          /\ UNCHANGED <<user_task, conversation_history, current_action,
                         user_inputs, finished, task_progress,
                         extracted_content, rendered, failPending,
                         liveDrivers>>
        ELSE IF r.success /\ isFinished /\ event.button # "Start New Task" THEN
          /\ finished' = TRUE
          /\ pc' = "idle"
          /\ rendered' = {"Start New Task"}
          /\ attempted' = attempted
          /\ UNCHANGED <<user_task, conversation_history, current_action,
                         user_inputs, task_progress, extracted_content,
                         failPending, liveDrivers>>
        ELSE IF r.success /\ isFinished THEN
          \* lines 410-421: the button reports its own click
          /\ agent' = NoObj
          /\ user_task' = None
          /\ conversation_history' = << >>
          /\ current_action' = NoObj
          /\ user_inputs' = EmptyDict
          /\ finished' = FALSE
          /\ task_progress' = ""
          /\ extracted_content' = None
          /\ pc' = "idle"
          /\ rendered' = {}
          /\ liveDrivers' = IF agent # NoObj THEN liveDrivers - 1
                            ELSE liveDrivers
          /\ attempted' = FALSE
          /\ UNCHANGED failPending
        ELSE IF r.success THEN
          /\ extracted_content' = StoreExtracted(extracted_content, r.extracted)
          /\ conversation_history' =
               RecordExtracted(conversation_history, r.extracted)
          /\ current_action' = NoObj
          /\ pc' = "idle"
          /\ attempted' = FALSE
          /\ UNCHANGED <<user_task, user_inputs, finished, task_progress,
                         rendered, failPending, liveDrivers>>
        ELSE
          /\ pc' = "recover"
          /\ failPending' = TRUE
          /\ attempted' = (attempted \/ r.op # NoOp)
          /\ UNCHANGED <<user_task, conversation_history, current_action,
                         user_inputs, finished, task_progress,
                         extracted_content, rendered, liveDrivers>>
  /\ UNCHANGED <<event, planResp, nCalls, log_file, loggers>>

\* Lines 431-441: ask the planner for an alternative.
Recover(resp) ==
  /\ pc = "recover"
  /\ nCalls < MaxCalls
  /\ LET r == PlannerOnFailure("Action failed", Snapshot,
                               conversation_history, resp)
     IN /\ conversation_history' = r.history
        /\ current_action' = IF r.raised THEN current_action ELSE r.result
        /\ log_file' = Logged(log_file, r)
        /\ attempted' = IF r.raised THEN attempted ELSE FALSE
        /\ step' = [Quiet EXCEPT !.kind = "recover", !.call = r.call,
                      !.call_ok = ~r.raised, !.state = Snapshot,
                      !.error = r.error]
  /\ pc' = "idle"
  /\ nCalls' = nCalls + 1
  /\ failPending' = FALSE
  /\ UNCHANGED <<agent, user_task, user_inputs, finished, task_progress,
                 extracted_content, event, rendered, lastNavigated,
                 planResp, loggers, liveDrivers>>

\* The browser tab is closed: Streamlit drops the session and its state.
\* The script has no hook for it and no run follows.
Discard ==
  /\ pc = "idle"
  /\ pc' = "discarded"
  /\ step' = [Quiet EXCEPT !.kind = "discard"]
  /\ UNCHANGED <<session, event, rendered, failPending, lastNavigated,
                 planResp, nCalls, log_file, loggers, liveDrivers, attempted>>

Next ==
  \/ \E g \in Goals : EnterGoal(g)
  \/ Rerun
  \/ \E a \in Answers : ClickSubmit(a)
  \/ ClickStartNewTask
  \/ \E resp \in Responses : Plan(resp)
  \/ Show
  \/ AskWait
  \/ AskSubmit
  \/ \E w \in Worlds : Exec(w)
  \/ \E resp \in Responses : Recover(resp)
  \/ Discard

Spec == Init /\ [][Next]_vars

\* ------------------------------------- two planners and the one log file
\* Each Streamlit session runs its script in a thread of its own and builds
\* its own TaskPlanner (line 342); all of them use "llm_interactions.json".
\* Lines 134-207: a planner is constructed, the file is emptied.
LogConstruct(p) ==
  /\ loggers.pcs[p] = "absent"
  /\ log_file' = TruncatedFile
  /\ loggers' = [loggers EXCEPT !.pcs[p] = "ready"]
  /\ UNCHANGED loopVars

\* Lines 212-231: build the record, read the file, append in memory.
LogRead(p, interaction_type) ==
  /\ loggers.pcs[p] = "ready"
  /\ loggers.count[p] < MaxRecords
  /\ LET result == [action_type |-> "finished"]
         call == LogCall(interaction_type, << Msg("system", SystemPrompt) >>,
                         dumps(result), result)
     IN loggers' = [loggers EXCEPT
                      !.pcs[p] = "read",
                      !.logs[p] = Append(load_logs(log_file),
                                         LogEntry(p, call))]
  /\ UNCHANGED <<loopVars, log_file>>

\* Lines 233-234: write the list back.
LogWrite(p) ==
  /\ loggers.pcs[p] = "read"
  /\ log_file' = JsonFile(loggers.logs[p])
  /\ loggers' = [loggers EXCEPT
                   !.pcs[p] = "ready",
                   !.count[p] = @ + 1,
                   !.written = Append(@, loggers.logs[p][Len(loggers.logs[p])])]
  /\ UNCHANGED loopVars

LogNext ==
  \/ \E p \in SessionIds : LogConstruct(p)
  \/ \E p \in SessionIds :
       \E t \in {"get_next_action", "handle_error"} : LogRead(p, t)
  \/ \E p \in SessionIds : LogWrite(p)

LogSpec == Init /\ [][LogNext]_vars

\* ---------------------------------------------------------------- claims
ActionKind(action) == Get(action, "action_type", None)
RequiresInput(action) == Get(action, "requires_user_input", FALSE)
PromptOf(action) == Get(action, "user_prompt", "")
Dispatched == step.kind = "exec"
LocatorOps == {"find_and_click", "find_and_type", "extract_content",
               "wait_for_element"}

\* C1: when the execution of the pending action has returned failure, the
\* next planner call of the session is handle_error, never a fresh
\* get_next_action.
C1_RecoveryFollowsFailure ==
  [][ (failPending /\ nCalls' # nCalls) => step'.call = "handle_error" ]_vars

C1_Witness ==
  step.kind = "recover" /\ step.call = "handle_error" /\ ~failPending

\* C2: executing a FINISHED action invokes no driver operation and sets the
\* finished flag; once the flag is set no later step of the session invokes
\* a driver operation, takes a snapshot or calls the planner.
C2_FinishedIsTerminal ==
  [][ /\ (step'.kind = "exec" /\ ActionKind(step'.action) = "finished")
           => (step'.op = NoOp /\ finished')
      /\ finished => /\ step'.op = NoOp
                     /\ step'.call = "none"
                     /\ step'.state = NoObj
                     /\ step'.kind \notin {"plan", "exec", "recover"} ]_vars

C2_Witness ==
  finished /\ step.kind \in {"rerun", "click"}

\* C3: an action with requires_user_input = true is handed to
\* execute_browser_action only when its user_prompt is a key of user_inputs.
C3_NoDispatchBeforeAnswer ==
  [][ (step'.kind = "exec" /\ RequiresInput(step'.action))
        => PromptOf(step'.action) \in DOMAIN user_inputs ]_vars

C3_Witness ==
  /\ Dispatched /\ RequiresInput(step.action)
  /\ step.op # NoOp
  /\ PromptOf(step.action) \in DOMAIN user_inputs

\* C4: whenever an action with requires_user_input = true is dispatched, its
\* input_value is the answer recorded for its user_prompt, also for a later
\* action whose prompt was answered before.
C4_DispatchedWithAnswer ==
  (Dispatched /\ RequiresInput(step.action))
    => /\ PromptOf(step.action) \in DOMAIN user_inputs
       /\ Get(step.action, "input_value", None)
            = user_inputs[PromptOf(step.action)]

\* C5: a decision without action_type, or with an action_type outside the
\* six kinds, ends as a failure outcome: no driver operation, no exception
\* out of the loop.
C5_UnknownKindIsFailure ==
  (Dispatched /\ ActionKind(step.action) \notin ActionType)
    => (step.op = NoOp /\ step.outcome = "failure" /\ step.error = "none")

\* C6: a pending action that is malformed for its kind returns failure
\* without raising and the loop goes to recovery.
Malformed(action) ==
  \/ /\ ActionKind(action) \in {"click", "type", "extract", "wait"}
     /\ (~Has(action, "selector") \/ ~Has(action, "selector_type"))
  \/ /\ ActionKind(action) \in {"navigate", "type"}
     /\ ~Has(action, "input_value")

C6_MalformedFails ==
  (Dispatched /\ Malformed(step.action))
    => (step.outcome = "failure" /\ pc = "recover")

\* C7: when the oracle's answer to get_next_action is not JSON, the call
\* raises, the pending action stays absent and the run ends; no action is
\* dispatched and no driver operation invoked until a later get_next_action
\* gets a parseable answer.
C7_BadJsonNoExecution ==
  [][ /\ (step'.kind = "plan" /\ planResp' = "bad_json")
           => /\ ~step'.call_ok /\ step'.error = "bad_json"
              /\ current_action' = current_action
              /\ ~TruthyObj(current_action')
              /\ pc' = "idle"
      /\ planResp = "bad_json" => (step'.kind # "exec" /\ step'.op = NoOp)
    ]_vars

C7_Witness ==
  planResp = "bad_json" /\ step.kind = "rerun" /\ pc = "plan"

\* C8 as claimed: every successful EXTRACT, the empty text included, stores
\* the text and appends exactly one "Extracted content: <text>" entry before
\* the loop is back at planning.
SuccessfulExtract ==
  /\ step'.kind = "exec"
  /\ ActionKind(step'.action) = "extract"
  /\ step'.outcome = "success"

ExtractRecorded ==
  /\ extracted_content' = step'.extracted
  /\ conversation_history' = Append(conversation_history,
        Msg("user", "Extracted content: " \o step'.extracted))

C8_EveryExtractRecorded ==
  [][ SuccessfulExtract
        => (ExtractRecorded /\ current_action' = NoObj /\ pc' = "idle") ]_vars

\* C8 amended: a successful EXTRACT with a non-empty text stores it and
\* appends exactly one entry; with the empty text it leaves the stored text
\* and the history as they were; either way the pending action is cleared
\* and the run ends for a rerun into planning.
C8_NonEmptyExtractRecorded ==
  [][ SuccessfulExtract
        => /\ current_action' = NoObj /\ pc' = "idle"
           /\ IF step'.extracted # ""
                THEN ExtractRecorded
                ELSE /\ extracted_content' = extracted_content
                     /\ conversation_history' = conversation_history ]_vars

C8_Witness ==
  /\ Dispatched /\ ActionKind(step.action) = "extract"
  /\ step.outcome = "success" /\ step.extracted = "$19.99"
  /\ extracted_content = "$19.99"

\* C9: current_url is the URL of the latest navigate that succeeded ("" if
\* none did); a navigate that fails, and every other step, leaves it as is.
C9_CurrentUrlIsLastNavigate ==
  [][ /\ agent' # NoObj => get_current_url(agent') = lastNavigated'
      /\ (/\ agent # NoObj /\ agent' # NoObj
          /\ ~(step'.op.name = "navigate_to_url" /\ step'.outcome = "success"))
           => get_current_url(agent') = get_current_url(agent) ]_vars

C9_Witness ==
  /\ Dispatched /\ step.op.name = "navigate_to_url"
  /\ step.outcome = "failure"
  /\ step.op.url = "https://example.com"
  /\ get_current_url(agent) = "https://weather.com"

\* C10: the locator sent to the page is "#" + raw for ID, "." + raw for
\* CLASS, "text=" + raw for TEXT and raw itself for XPATH and CSS.
DocumentedLocator(kind, raw) ==
  CASE kind = "id"    -> "#" \o raw
    [] kind = "class" -> "." \o raw
    [] kind = "xpath" -> raw
    [] kind = "text"  -> "text=" \o raw
    [] kind = "css"   -> raw

C10_SelectorMapping ==
  (/\ step.op.name \in LocatorOps
   /\ step.op.selector_type \in SelectorType
   /\ step.op.selector # None)
    => step.op.locator
         = DocumentedLocator(step.op.selector_type, step.op.selector)

C10_Witness ==
  /\ step.op.name = "wait_for_element"
  /\ step.op.selector_type = "text"
  /\ step.op.locator = "text=Sign in"

\* C11: the timeout handed to a driver operation is 10000 when the decision
\* has no timeout or a timeout that is zero or negative, and the decision's
\* own timeout otherwise.
C11_TimeoutDefaulted ==
  (Dispatched /\ step.op.name \in LocatorOps)
    => step.op.timeout =
         IF ~Has(step.action, "timeout") \/ step.action.timeout <= 0
           THEN 10000 ELSE step.action.timeout

\* C12: in DONE (finished set) the user's "Start New Task" request takes
\* effect: when the run started by the click is over the loop awaits a goal
\* again, with goal, history, pending action, answered prompts, finished
\* flag and extracted text cleared; and nothing else clears the flag.
SessionCleared ==
  /\ user_task' = None
  /\ conversation_history' = << >>
  /\ current_action' = NoObj
  /\ user_inputs' = EmptyDict
  /\ finished' = FALSE
  /\ extracted_content' = None

C12_StartNewTaskTakesEffect ==
  [][ /\ (finished /\ step'.kind = "click"
            /\ event'.button = "Start New Task" /\ pc' = "idle")
           => SessionCleared
      /\ (finished /\ ~finished') => event'.button = "Start New Task" ]_vars

\* C13: a driver is launched only while none is live, so at most one is
\* live, and none is live once the agent reference is dropped or the session
\* is discarded.
C13_DriversPaired ==
  /\ liveDrivers <= 1
  /\ agent = NoObj => liveDrivers = 0
  /\ pc = "discarded" => liveDrivers = 0

\* C14: when no log call of either planner is under way, the file holds
\* every record logged so far, in the order the calls completed; this also
\* after a planner was constructed while the file held records.
C14_NoRecordLost ==
  (\A p \in SessionIds : loggers.pcs[p] # "read")
    => load_logs(log_file) = loggers.written

\* C15: until a new task is started every step leaves the history it found
\* as a prefix of the history it leaves, and the first entry is the goal.
IsPrefix(s, t) == Len(s) <= Len(t) /\ SubSeq(t, 1, Len(s)) = s

C15_HistoryAppendOnly ==
  [][ user_task' = None
      \/ /\ IsPrefix(conversation_history, conversation_history')
         /\ conversation_history'[1] = Msg("user", user_task') ]_vars

C15_Witness ==
  /\ Len(conversation_history) >= 4
  /\ step.kind = "recover" /\ step.call_ok

\* C16: an action is handed to the driver at most once; after an attempt it
\* is not handed to it again in a later run, also not when the recovery or
\* planning call that follows fails.
C16_DispatchedOnce ==
  [][ (step'.kind = "exec" /\ step'.op # NoOp) => ~attempted ]_vars

\* C17: the browser state passed to a planner call is the driver's state at
\* the moment of the call: the URL of the latest successful navigate and the
\* page then loaded, not a state read for an earlier call.
C17_FreshState ==
  [][ step'.call # "none"
        => /\ agent # NoObj
           /\ step'.state.current_url = lastNavigated
           /\ step'.state.page_content = agent.page ]_vars

C17_Witness ==
  /\ step.call = "get_next_action"
  /\ nCalls = 2
  /\ step.state.current_url = "https://example.com"

\* C18: the recovery call is made right after the step that announced the
\* failed execution, and an action that has an explanation is executed right
\* after the step that wrote this explanation out.
C18_AnnouncedBeforeRecovery ==
  [][ /\ step'.kind = "recover"
           => /\ step.kind = "exec" /\ step.outcome = "failure"
              /\ step.ui = << FailureNotice >>
      /\ (step'.kind = "exec" /\ Has(step'.action, "explanation"))
           => /\ step.kind = "show" /\ step.action = step'.action
              /\ step.ui = << step'.action.explanation >> ]_vars

C18_Witness ==
  /\ step.kind = "exec" /\ Has(step.action, "explanation")
  /\ Len(conversation_history) >= 2
  /\ conversation_history[Len(conversation_history) - 1].content
       = "Error occurred: Action failed"

\* C19: finished is set only by the successful execution of a FINISHED
\* action, which stays the pending action and leaves the history and the
\* last extracted text as they were.
C19_FinishedOnlyByFinished ==
  [][ /\ finished' => ActionKind(current_action') = "finished"
      /\ (finished' /\ ~finished)
           => /\ step'.kind = "exec" /\ step'.outcome = "success"
              /\ ActionKind(step'.action) = "finished"
              /\ current_action' = step'.action
              /\ conversation_history' = conversation_history
              /\ extracted_content' = extracted_content ]_vars

C19_Witness ==
  /\ finished /\ step.kind = "exec"
  /\ step.extracted = "finished"
  /\ extracted_content = "$19.99"

\* C20: a planner call that fails appends nothing to the history, writes
\* nothing to the log and leaves the pending action and the rest of the
\* session as they were.
C20_FailedCallChangesNothing ==
  [][ (step'.call # "none" /\ ~step'.call_ok)
        => /\ conversation_history' = conversation_history
           /\ log_file' = log_file
           /\ current_action' = current_action
           /\ UNCHANGED session ]_vars

C20_Witness ==
  /\ step.kind = "recover" /\ ~step.call_ok /\ step.error = "bad_json"
  /\ Len(load_logs(log_file)) = 1

TypeOK ==
  /\ pc \in {"idle", "plan", "show", "ask", "exec", "recover", "discarded"}
  /\ finished \in BOOLEAN
  /\ nCalls \in 0..MaxCalls
====
